---- MODULE Spec2Model ----
(***************************************************************************)
(* Shopping Feed Attribute Scraper (src/app.py).                           *)
(*                                                                         *)
(* Texts are sequences of one-character strings.  A Python dict is a       *)
(* function whose DOMAIN is its key set.  An optional value (None or a     *)
(* value) is a set with at most one element.                               *)
(***************************************************************************)
EXTENDS Integers, Sequences, FiniteSets, TLC

VARIABLES
    xml_content,    \* the uploaded feed document
    max_urls,       \* sidebar setting "Limit number of URLs (0 = all)"
    web,            \* the answers the network may give to a request
    pc,             \* position of main()
    products,       \* main(): products
    i,              \* main(): number of loop iterations completed
    all_attributes, \* main(): all_attributes
    product_data,   \* scrape_product_attributes(): its argument
    attributes,     \* scrape_product_attributes(): attributes
    response,       \* scrape_product_attributes(): what session.get returned or raised
    log             \* network requests, result appends and sleeps, in order

vars == <<xml_content, max_urls, web, pc, products, i, all_attributes,
          product_data, attributes, response, log>>

----------------------------------------------------------------------------
(* Bounds *)

\* item nodes in a feed document
MaxItems == 3
\* largest value of the max_urls setting (one more than MaxItems, so that the
\* cap can be below, at and above the number of products)
MaxCap == 4
\* rows in the table of a fetched page
MaxRows == 2
\* tables in a page given to the table scan, and rows in all of them
MaxTables == 2
MaxTableRows == 3

----------------------------------------------------------------------------
(* Text *)

Whitespace == {" ", "\t", "\n"}

RECURSIVE lstrip(_)
lstrip(s) ==
    IF s # <<>> /\ Head(s) \in Whitespace THEN lstrip(Tail(s)) ELSE s

RECURSIVE rstrip(_)
rstrip(s) ==
    IF s # <<>> /\ s[Len(s)] \in Whitespace
    THEN rstrip(SubSeq(s, 1, Len(s) - 1))
    ELSE s

\* str.strip()
strip(s) == rstrip(lstrip(s))

\* str.startswith(prefix)
startswith(s, prefix) ==
    /\ Len(s) >= Len(prefix)
    /\ SubSeq(s, 1, Len(prefix)) = prefix

\* needle in haystack
contains(haystack, needle) ==
    \E k \in 0..(Len(haystack) - Len(needle)) :
        SubSeq(haystack, k + 1, k + Len(needle)) = needle

LowerChar(c) ==
    CASE c = "S" -> "s"
      [] c = "W" -> "w"
      [] c = "C" -> "c"
      [] c = "M" -> "m"
      [] c = "D" -> "d"
      [] OTHER -> c

\* str.lower()
lower(s) == [k \in 1..Len(s) |-> LowerChar(s[k])]

\* the empty dict
EmptyDict == <<>>

\* d[k] = v
SetItem(d, k, v) == (k :> v) @@ d

----------------------------------------------------------------------------
(* Feed parser: FeedAttributeScraper.extract_products_from_xml *)

\* An item node is a function from the tags of its children to their texts;
\* a child without text (None or '') has the text <<>>.
ItemTags == {"g:id", "id", "g:title", "title", "g:link", "link"}

\* item.find(tag): the child, or None
find(item, tag) == IF tag \in DOMAIN item THEN {item[tag]} ELSE {}

find_ns_only(item, ns_tag, bare_tag) == find(item, ns_tag)

find_with_text_then_bare(item, ns_tag, bare_tag) ==
    IF find(item, ns_tag) \in {{}, {<<>>}}
    THEN find(item, bare_tag)
    ELSE find(item, ns_tag)

\* elem = item.find('g:x', namespaces); if elem is None: elem = item.find('x')
find_ns_then_bare(item, ns_tag, bare_tag) ==
    IF find(item, ns_tag) = {} THEN find(item, bare_tag) ELSE find(item, ns_tag)

\* elem is not None and elem.text
has_text(elem) == elem # {} /\ (CHOOSE t \in elem : TRUE) # <<>>

text_of(elem) == CHOOSE t \in elem : TRUE

Http == <<"h", "t", "t", "p">>

any_url(url) == url # <<>>

\* url.startswith('http')
url_accepted(url) == startswith(url, Http)

\* the body of the loop over items: the product dict built for one item
build_product(item) ==
    LET id_elem == find_ns_then_bare(item, "g:id", "id")
        p1 == IF has_text(id_elem)
              THEN SetItem(EmptyDict, "id", strip(text_of(id_elem)))
              ELSE EmptyDict
        title_elem == find_ns_then_bare(item, "g:title", "title")
        p2 == IF has_text(title_elem)
              THEN SetItem(p1, "title", strip(text_of(title_elem)))
              ELSE p1
        link_elem == find_ns_then_bare(item, "g:link", "link")
        p3 == IF has_text(link_elem) /\ url_accepted(strip(text_of(link_elem)))
              THEN SetItem(p2, "url", strip(text_of(link_elem)))
              ELSE p2
    IN  p3

\* for item in items: ... if 'url' in product: products.append(product)
RECURSIVE parse_items(_)
parse_items(items) ==
    IF items = <<>> THEN <<>>
    ELSE LET product == build_product(Head(items))
         IN  IF "url" \in DOMAIN product
             THEN <<product>> \o parse_items(Tail(items))
             ELSE parse_items(Tail(items))

items_before_the_fault(doc) == parse_items(doc.items)

\* A document is well formed or not; items are its item nodes in document
\* order (those before the syntax fault, when it is not well formed).
extract_products_from_xml(doc) ==
    IF doc.well_formed THEN parse_items(doc.items) ELSE <<>>

----------------------------------------------------------------------------
(* Page fetcher and the fetched page *)

\* The extractors scrape_product_attributes runs, in its order, and the key
\* each one writes.
ExtractorSeq == <<"dimensions", "weight", "colour", "material", "pattern", "size">>

Extractors == {ExtractorSeq[n] : n \in 1..Len(ExtractorSeq)}

KeyOf(e) ==
    CASE e = "dimensions" -> "size_dimensions"
      [] e = "weight" -> "weight"
      [] e = "colour" -> "color"
      [] e = "material" -> "material"
      [] e = "pattern" -> "pattern"
      [] e = "size" -> "size"

\* The steps between a successful fetch and the return, in order.
Steps == {"markup"} \cup Extractors \cup {"table"}

\* A page is what the steps make of it: the step at which a fault (an
\* exception that is no RequestException) is raised, if any; what each regex
\* extractor returns (None, or a text); and its tables, each a sequence of
\* rows, each row the texts of its td/th cells.

\* self.session.get(url, timeout=15); response.raise_for_status(): the
\* outcomes possible for url (requests raises MissingSchema, a
\* RequestException, for a URL without a scheme)
session_get(url) ==
    IF startswith(url, Http)
    THEN web
    ELSE {[status |-> "raises", exc |-> "MissingSchema"]}

----------------------------------------------------------------------------
(* Table scan: FeedAttributeScraper.extract_table_data *)

kw_dimension == <<"d", "i", "m", "e", "n", "s", "i", "o", "n">>
kw_size == <<"s", "i", "z", "e">>
kw_weight == <<"w", "e", "i", "g", "h", "t">>
kw_colour == <<"c", "o", "l", "o", "u", "r">>
kw_color == <<"c", "o", "l", "o", "r">>
kw_material == <<"m", "a", "t", "e", "r", "i", "a", "l">>

\* the if/elif chain on key: the data key the row is stored under, or None
classify(key) ==
    IF contains(key, kw_dimension) \/ contains(key, kw_size) THEN {"size"}
    ELSE IF contains(key, kw_weight) THEN {"weight"}
    ELSE IF contains(key, kw_colour) \/ contains(key, kw_color) THEN {"colour"}
    ELSE IF contains(key, kw_material) THEN {"material"}
    ELSE {}

scan_row_keep_first(data, cells) ==
    IF Len(cells) >= 2
    THEN LET key == lower(strip(cells[1]))
             value == strip(cells[2])
             k == classify(key)
         IN  IF k = {} \/ (CHOOSE x \in k : TRUE) \in DOMAIN data
             THEN data
             ELSE SetItem(data, CHOOSE x \in k : TRUE, value)
    ELSE data

\* the body of the loop over rows
scan_row(data, cells) ==
    IF Len(cells) >= 2
    THEN LET key == lower(strip(cells[1]))
             value == strip(cells[2])
             k == classify(key)
         IN  IF k = {} THEN data ELSE SetItem(data, CHOOSE x \in k : TRUE, value)
    ELSE data

RECURSIVE scan_rows(_, _)
scan_rows(data, rows) ==
    IF rows = <<>> THEN data
    ELSE scan_rows(scan_row(data, Head(rows)), Tail(rows))

RECURSIVE scan_tables(_, _)
scan_tables(data, tables) ==
    IF tables = <<>> THEN data
    ELSE scan_tables(scan_rows(data, Head(tables)), Tail(tables))

extract_table_data(tables) == scan_tables(EmptyDict, tables)

----------------------------------------------------------------------------
(* Item processor: FeedAttributeScraper.scrape_product_attributes *)

\* d.get(k, '')
get(d, k) == IF k \in DOMAIN d THEN d[k] ELSE <<>>

never_missing(url) == FALSE

\* if not url
url_missing(url) == url = <<>>

keep_existing(d, other) == d @@ other

\* attributes.update(table_data)
update(d, other) == other @@ d

\* attributes['error'] = 'No URL provided'
no_url_error(attrs) == SetItem(attrs, "error", <<"No URL provided">>)

error_alone(attrs, e) == ("error" :> <<"Request error: ", e>>)

as_processing_error(attrs, e) ==
    SetItem(attrs, "error", <<"Processing error: ", e>>)

\* except requests.exceptions.RequestException as e
on_request_exception(attrs, e) ==
    SetItem(attrs, "error", <<"Request error: ", e>>)

error_on_base_fields(attrs, e) ==
    SetItem([k \in DOMAIN attrs \cap {"id", "title", "url"} |-> attrs[k]],
            "error", <<"Processing error: ", e>>)

\* except Exception as e
on_exception(attrs, e) ==
    SetItem(attrs, "error", <<"Processing error: ", e>>)

NoPage == [fault_at |-> "none", regex |-> [e \in Extractors |-> {}], tables |-> <<>>]

NoResponse == [status |-> "none"]

\* attributes = product_data.copy(); url = attributes.get('url', '');
\* if not url: attributes['error'] = ...; return attributes
ScrapeEntry ==
    /\ pc = "scrape"
    /\ IF url_missing(get(product_data, "url"))
       THEN /\ attributes' = no_url_error(product_data)
            /\ pc' = "returned"
       ELSE /\ attributes' = product_data
            /\ pc' = "fetch"
    /\ UNCHANGED <<xml_content, max_urls, web, products, i, all_attributes,
                   product_data, response, log>>

\* response = self.session.get(url, timeout=15); response.raise_for_status()
Fetch ==
    /\ pc = "fetch"
    /\ log' = Append(log, [ev |-> "fetch", item |-> i + 1])
    /\ \E r \in session_get(get(attributes, "url")) :
          /\ response' = r
          /\ IF r.status = "raises"
             THEN /\ attributes' = on_request_exception(attributes, r.exc)
                  /\ pc' = "returned"
             ELSE /\ attributes' = attributes
                  /\ pc' = "markup"
    /\ UNCHANGED <<xml_content, max_urls, web, products, i, all_attributes,
                   product_data>>

\* soup = BeautifulSoup(...); page_text = soup.get_text(); title = ...
ParseMarkup ==
    /\ pc = "markup"
    /\ IF response.page.fault_at = "markup"
       THEN /\ attributes' = on_exception(attributes, "fault")
            /\ pc' = "returned"
       ELSE /\ attributes' = attributes
            /\ pc' = ExtractorSeq[1]
    /\ UNCHANGED <<xml_content, max_urls, web, products, i, all_attributes,
                   product_data, response, log>>

\* x = self.extract_x(...); if x: attributes[key] = x
Extract(n) ==
    /\ pc = ExtractorSeq[n]
    /\ LET e == ExtractorSeq[n]
           result == response.page.regex[e]
       IN  IF response.page.fault_at = e
           THEN /\ attributes' = on_exception(attributes, "fault")
                /\ pc' = "returned"
           ELSE /\ attributes' = IF has_text(result)
                                 THEN SetItem(attributes, KeyOf(e), text_of(result))
                                 ELSE attributes
                /\ pc' = IF n < Len(ExtractorSeq) THEN ExtractorSeq[n + 1] ELSE "table"
    /\ UNCHANGED <<xml_content, max_urls, web, products, i, all_attributes,
                   product_data, response, log>>

\* table_data = self.extract_table_data(soup); attributes.update(table_data);
\* return attributes
TableScan ==
    /\ pc = "table"
    /\ attributes' = IF response.page.fault_at = "table"
                     THEN on_exception(attributes, "fault")
                     ELSE update(attributes, extract_table_data(response.page.tables))
    /\ pc' = "returned"
    /\ UNCHANGED <<xml_content, max_urls, web, products, i, all_attributes,
                   product_data, response, log>>

ScrapeStep ==
    \/ ScrapeEntry
    \/ Fetch
    \/ ParseMarkup
    \/ \E n \in 1..Len(ExtractorSeq) : Extract(n)
    \/ TableScan

----------------------------------------------------------------------------
(* Batch orchestrator: main *)

keep_last(prods, limit) ==
    IF limit > 0 /\ limit < Len(prods)
    THEN SubSeq(prods, Len(prods) - limit + 1, Len(prods))
    ELSE prods

\* if max_urls > 0 and max_urls < len(products): products = products[:max_urls]
apply_limit(prods, limit) ==
    IF limit > 0 /\ limit < Len(prods) THEN SubSeq(prods, 1, limit) ELSE prods

append_unless_error(all, attrs) ==
    IF "error" \in DOMAIN attrs THEN all ELSE Append(all, attrs)

\* all_attributes.append(attributes)
append_result(all, attrs) == Append(all, attrs)

delay_after_every_item(idx, n) == idx < n

\* if i < len(products) - 1  (i counts from 0)
needs_delay(idx, n) == idx < n - 1

\* products = scraper.extract_products_from_xml(xml_content)
ExtractProducts ==
    /\ pc = "upload"
    /\ products' = extract_products_from_xml(xml_content)
    /\ pc' = "extracted"
    /\ UNCHANGED <<xml_content, max_urls, web, i, all_attributes, product_data,
                   attributes, response, log>>

\* if not products: st.error(...); return
NoProducts ==
    /\ pc = "extracted"
    /\ products = <<>>
    /\ pc' = "stopped"
    /\ UNCHANGED <<xml_content, max_urls, web, products, i, all_attributes,
                   product_data, attributes, response, log>>

\* Apply limit if set
ApplyLimit ==
    /\ pc = "extracted"
    /\ products # <<>>
    /\ products' = apply_limit(products, max_urls)
    /\ pc' = "preview"
    /\ UNCHANGED <<xml_content, max_urls, web, i, all_attributes, product_data,
                   attributes, response, log>>

\* if st.button("Start Scraping"): all_attributes = []
StartScraping ==
    /\ pc = "preview"
    /\ all_attributes' = <<>>
    /\ i' = 0
    /\ pc' = "loop"
    /\ UNCHANGED <<xml_content, max_urls, web, products, product_data,
                   attributes, response, log>>

\* for i, product in enumerate(products):
\*     attributes = scraper.scrape_product_attributes(product)
CallScrape ==
    /\ pc = "loop"
    /\ i < Len(products)
    /\ product_data' = products[i + 1]
    /\ pc' = "scrape"
    /\ UNCHANGED <<xml_content, max_urls, web, products, i, all_attributes,
                   attributes, response, log>>

\* all_attributes.append(attributes); progress_bar.progress(...)
AppendResult ==
    /\ pc = "returned"
    /\ all_attributes' = append_result(all_attributes, attributes)
    /\ log' = Append(log, [ev |-> "append", item |-> i + 1])
    /\ pc' = "rate_limit"
    /\ UNCHANGED <<xml_content, max_urls, web, products, i, product_data,
                   attributes, response>>

\* if i < len(products) - 1: time.sleep(delay)
RateLimit ==
    /\ pc = "rate_limit"
    /\ log' = IF needs_delay(i, Len(products))
              THEN Append(log, [ev |-> "sleep", item |-> i + 1])
              ELSE log
    /\ i' = i + 1
    /\ pc' = "loop"
    /\ UNCHANGED <<xml_content, max_urls, web, products, all_attributes,
                   product_data, attributes, response>>

\* the loop is exhausted: status_text.text("Scraping complete!")
Complete ==
    /\ pc = "loop"
    /\ i >= Len(products)
    /\ pc' = "complete"
    /\ UNCHANGED <<xml_content, max_urls, web, products, i, all_attributes,
                   product_data, attributes, response, log>>

----------------------------------------------------------------------------
(* Inputs *)

\* Sequences over S of length at most n
RECURSIVE SeqsUpTo(_, _)
SeqsUpTo(S, n) ==
    IF n = 0 THEN {<<>>}
    ELSE LET shorter == SeqsUpTo(S, n - 1)
         IN  shorter \cup {Append(q, x) : q \in {r \in shorter : Len(r) = n - 1}, x \in S}

\* An item node with the children given by the optional texts.
Node(gid, id, gtitle, title, glink, link) ==
    LET texts == [t \in ItemTags |->
                    CASE t = "g:id" -> gid [] t = "id" -> id
                      [] t = "g:title" -> gtitle [] t = "title" -> title
                      [] t = "g:link" -> glink [] t = "link" -> link]
    IN  [t \in {u \in ItemTags : texts[u] # {}} |-> text_of(texts[t])]

Url1 == <<"h", "t", "t", "p", ":", "1">>
Url2 == <<"h", "t", "t", "p", ":", "2">>
Ftp == <<"f", "t", "p", ":", "1">>

\* Feed parser inputs: every combination of the two forms of the three fields.
FeedNodes ==
    { Node(gid, id, gtitle, title, glink, link) :
        gid \in {{}, {<<>>}, {<<" ", "A">>}},
        id \in {{}, {<<>>}, {<<"B", " ">>}},
        gtitle \in {{}, {<<>>}, {<<"T">>}},
        title \in {{}, {<<>>}, {<<"U", "\n">>}},
        glink \in {{}, {<<>>}, {<<" ">>}, {Ftp}, {<<" ">> \o Url1 \o <<" ">>}},
        link \in {{}, {Ftp}, {Url2}} }

\* Whole-run inputs: two items kept by the parser, one dropped.
RunNodes ==
    { Node({<<"A">>}, {}, {<<"T">>}, {}, {Url1}, {}),
      Node({}, {<<"B">>}, {}, {}, {}, {Url2}),
      Node({<<"C">>}, {}, {}, {<<"U">>}, {}, {Ftp}) }

\* A document is well formed or not, and holds at most MaxItems item nodes:
\* the elements root.findall('.//item') yields, at any depth below the root,
\* in document order.
Documents(item_seqs) == [well_formed : BOOLEAN, items : item_seqs]

\* Feeds of the whole run.
RunItems == SeqsUpTo(RunNodes, MaxItems)

Value(e) == <<"regex", e>>

AllFound == [e \in Extractors |-> {Value(e)}]

Cell(k) ==
    CASE k = "size" -> <<" ", "S", "i", "z", "e">>
      [] k = "dimension" -> <<"D", "i", "m", "e", "n", "s", "i", "o", "n", "s">>
      [] k = "weight" -> <<"W", "e", "i", "g", "h", "t", " ">>
      [] k = "colour" -> <<"C", "o", "l", "o", "u", "r">>
      [] k = "color" -> <<"c", "o", "l", "o", "r">>
      [] k = "material" -> <<"M", "a", "t", "e", "r", "i", "a", "l">>
      [] k = "other" -> <<"S", "K", "U">>

Row(k, v) == <<Cell(k), <<" ", "t", v>>>>

TransportFailures ==
    { [status |-> "raises", exc |-> x] : x \in {"Timeout", "ConnectionError", "HTTPError"} }

\* Responses of the whole run: two transport failures, pages that fault at
\* the first step or in the middle of the extraction, and a page that is
\* processed to the end.
RunResponses ==
    { [status |-> "raises", exc |-> x] : x \in {"Timeout", "HTTPError"} }
    \cup
    { [status |-> "ok", page |-> [fault_at |-> f, regex |-> AllFound,
                                  tables |-> << <<Row("weight", "1"),
                                                Row("colour", "2")>> >>]] :
        f \in {"none", "markup", "material"} }

\* What the regex extractors find: each of the three keys the table scan
\* also writes on its own, the other three together; one may return ''.
RegexFinds ==
    { [e \in Extractors |->
         IF e \in {"weight", "material", "size"}
         THEN (IF e \in found THEN {Value(e)} ELSE {})
         ELSE (IF others = "all" THEN {Value(e)}
               ELSE IF others = "blank" /\ e = "pattern" THEN {<<>>}
               ELSE {})] :
        found \in SUBSET {"weight", "material", "size"},
        others \in {"all", "none", "blank"} }

ItemRows ==
    { Row("size", "1"), Row("weight", "2"), Row("colour", "3"),
      Row("material", "4"), Row("other", "5"), <<Cell("weight")>> }

\* Responses to one call of the item processor.
ItemResponses ==
    TransportFailures
    \cup
    { [status |-> "ok", page |-> [fault_at |-> f, regex |-> r, tables |-> <<rows>>]] :
        f \in Steps \cup {"none"}, r \in RegexFinds,
        rows \in SeqsUpTo(ItemRows, MaxRows) }

\* Item records handed to the item processor.
ItemRecords ==
    { ("id" :> <<"A">>) @@ ("title" :> <<"T">>) @@ ("url" :> Url1),
      ("url" :> Url1),
      ("id" :> <<"A">>) @@ ("url" :> <<>>),
      ("id" :> <<"A">>) @@ ("title" :> <<"T">>) }

Init ==
    /\ xml_content \in Documents(RunItems)
    /\ max_urls \in 0..MaxCap
    /\ web = RunResponses
    /\ pc = "upload"
    /\ products = <<>>
    /\ i = 0
    /\ all_attributes = <<>>
    /\ product_data = EmptyDict
    /\ attributes = EmptyDict
    /\ response = NoResponse
    /\ log = <<>>

Next ==
    \/ ExtractProducts
    \/ NoProducts
    \/ ApplyLimit
    \/ StartScraping
    \/ CallScrape
    \/ ScrapeStep
    \/ AppendResult
    \/ RateLimit
    \/ Complete

Spec == Init /\ [][Next]_vars

\* The feed parser alone: a whole-run feed, with an item node of any shape
\* in the place of one of its item nodes.
InitFeed ==
    /\ \E q \in RunItems, k \in 1..MaxItems, n \in FeedNodes, wf \in BOOLEAN :
          xml_content = [well_formed |-> wf,
                         items |-> IF k <= Len(q) THEN [q EXCEPT ![k] = n] ELSE q]
    /\ max_urls = 0
    /\ web = {}
    /\ pc = "upload"
    /\ products = <<>>
    /\ i = 0
    /\ all_attributes = <<>>
    /\ product_data = EmptyDict
    /\ attributes = EmptyDict
    /\ response = NoResponse
    /\ log = <<>>

NextFeed ==
    \/ ExtractProducts
    \/ NoProducts

SpecFeed == InitFeed /\ [][NextFeed]_vars

\* One call of scrape_product_attributes, on any item record (main only
\* passes records the parser made, whose url is never empty), with the one
\* answer the network gives to its request.
InitItem ==
    /\ xml_content = [well_formed |-> TRUE, items |-> <<>>]
    /\ max_urls = 0
    /\ web \in {{r} : r \in ItemResponses}
    /\ pc = "scrape"
    /\ products = <<>>
    /\ i = 0
    /\ all_attributes = <<>>
    /\ product_data \in ItemRecords
    /\ attributes = EmptyDict
    /\ response = NoResponse
    /\ log = <<>>

NextItem == ScrapeStep

SpecItem == InitItem /\ [][NextItem]_vars

\* Rows given to the table scan: two spellings for each key, first cells
\* that hold two keywords, an unclassified first cell, a row of one cell and a
\* row of three.
TableRows ==
    { Row("size", "1"), Row("dimension", "2"), Row("weight", "3"),
      Row("colour", "4"), Row("color", "5"), Row("material", "6"),
      Row("other", "7"),
      <<Cell("weight")>>,
      <<Cell("weight"), <<"t", "8", " ">>, <<"t", "9">>>>,
      <<<<"W", "e", "i", "g", "h", "t", " ", "&", " ", "s", "i", "z", "e">>, <<"t", "a">>>>,
      <<<<"C", "o", "l", "o", "u", "r", "/", "M", "a", "t", "e", "r", "i", "a", "l">>, <<"t", "b">>>>,
      <<<<" ", "W", "e", "i", "g", "h", "t", " ", "(", "m", "a", "t", "e", "r", "i", "a", "l", ")">>, <<"t", "c">>>> }

\* the rows cut into tables after the places in cuts
RECURSIVE Split(_, _, _)
Split(rows, cuts, from) ==
    LET later == {c \in cuts : c >= from}
    IN  IF later = {} THEN <<SubSeq(rows, from, Len(rows))>>
        ELSE LET c == CHOOSE x \in later : \A y \in later : x <= y
             IN  <<SubSeq(rows, from, c)>> \o Split(rows, cuts, c + 1)

\* One call of scrape_product_attributes on a page where the regex
\* extractors find nothing and whose tables hold at most MaxTableRows rows.
InitTable ==
    /\ xml_content = [well_formed |-> TRUE, items |-> <<>>]
    /\ max_urls = 0
    /\ \E rows \in SeqsUpTo(TableRows, MaxTableRows) :
       \E cuts \in SUBSET (1..(Len(rows) - 1)) :
          /\ Cardinality(cuts) < MaxTables
          /\ web = {[status |-> "ok",
                     page |-> [fault_at |-> "none",
                               regex |-> [e \in Extractors |-> {}],
                               tables |-> IF rows = <<>> THEN <<>>
                                          ELSE Split(rows, cuts, 1)]]}
    /\ pc = "scrape"
    /\ products = <<>>
    /\ i = 0
    /\ all_attributes = <<>>
    /\ product_data = ("id" :> <<"A">>) @@ ("title" :> <<"T">>) @@ ("url" :> Url1)
    /\ attributes = EmptyDict
    /\ response = NoResponse
    /\ log = <<>>

NextTable == ScrapeStep

SpecTable == InitTable /\ [][NextTable]_vars

----------------------------------------------------------------------------
(* Claims *)

BaseKeys == {"id", "title", "url"}

\* the bag carries the item's id, title and url, and no other of the three
SameBase(bag, item) ==
    \A f \in BaseKeys :
        IF f \in DOMAIN item
        THEN f \in DOMAIN bag /\ bag[f] = item[f]
        ELSE f \notin DOMAIN bag

HasError(bag, prefix) == "error" \in DOMAIN bag /\ bag["error"][1] = prefix

\* C1: whatever the outcome of each item (success, transport failure,
\* processing fault), the batch loop never stops before the end: when it
\* completes the result set has one bag per item of the capped list, the
\* k-th bag made from the k-th item, and while it runs every bag appended so
\* far is the bag of the item at its place.
C1_BatchProcessesEveryItem ==
    /\ pc \in {"loop", "scrape", "fetch", "markup", "table", "returned", "rate_limit"}
               \cup Extractors
         => /\ ENABLED Next
            /\ Len(all_attributes) \in {i, i + 1}
    /\ \A k \in DOMAIN all_attributes :
          k <= Len(products) /\ SameBase(all_attributes[k], products[k])
    /\ pc = "complete" => Len(all_attributes) = Len(products)

\* a transport failure on the first item, a processing fault on the second,
\* and the third item still processed, without error
C1_Witness ==
    /\ pc = "complete"
    /\ Len(all_attributes) = 3
    /\ HasError(all_attributes[1], "Request error: ")
    /\ HasError(all_attributes[2], "Processing error: ")
    /\ "error" \notin DOMAIN all_attributes[3]

Events(ev) == {p \in DOMAIN log : log[p].ev = ev}

\* C4: items are processed one at a time and the delay comes only between
\* consecutive items: in a completed run over N items the requests and
\* appends alternate item by item, there are exactly N-1 sleeps, the one for
\* item k right after the append of item k and right before the request of
\* item k+1, and the last event is the append of item N.
C4_DelayBetweenItemsOnly ==
    pc = "complete" =>
        LET N == Len(products)
        IN  /\ N >= 1
            /\ Cardinality(Events("sleep")) = N - 1
            /\ Len(log) = 3 * N - 1
            /\ \A k \in 1..N :
                  /\ log[3 * k - 2] = [ev |-> "fetch", item |-> k]
                  /\ log[3 * k - 1] = [ev |-> "append", item |-> k]
                  /\ k < N => log[3 * k] = [ev |-> "sleep", item |-> k]
            /\ log[Len(log)] = [ev |-> "append", item |-> N]

C4_Witness ==
    /\ pc = "complete"
    /\ Len(products) = 3
    /\ Cardinality(Events("sleep")) = 2

\* C5: the cap keeps the first max_urls products in feed order when
\* 0 < max_urls < L, and the whole list when max_urls = 0 or max_urls >= L;
\* the result set of a completed run is made from exactly that list.
C5_CapKeepsFirstItems ==
    pc \in {"preview", "loop", "complete"} =>
        LET parsed == extract_products_from_xml(xml_content)
            L == Len(parsed)
        IN  /\ (0 < max_urls /\ max_urls < L) =>
                  /\ Len(products) = max_urls
                  /\ \A k \in 1..max_urls : products[k] = parsed[k]
            /\ (max_urls = 0 \/ max_urls >= L) => products = parsed
            /\ pc = "complete" =>
                  /\ Len(all_attributes) = Len(products)
                  /\ \A k \in DOMAIN all_attributes :
                        SameBase(all_attributes[k], parsed[k])

\* two different items and cap 1: the result set holds the first one only
C5_Witness ==
    /\ pc = "complete"
    /\ max_urls = 1
    /\ Len(extract_products_from_xml(xml_content)) = 2
    /\ extract_products_from_xml(xml_content)[1]["url"]
         # extract_products_from_xml(xml_content)[2]["url"]
    /\ Len(all_attributes) = 1
    /\ all_attributes[1]["url"] = extract_products_from_xml(xml_content)[1]["url"]

\* the item processor has returned from a call in which it made a request
Returned(status) ==
    /\ pc = "returned"
    /\ log # <<>>
    /\ response.status = status

AttributeKeys ==
    {"size_dimensions", "weight", "color", "material", "pattern", "size", "colour"}

\* C2: when the fetch raises a transport failure (timeout, connection
\* failure, HTTP error status), the returned bag is the item record as given
\* plus an error that starts with "Request error:", and holds none of the
\* attribute keys.
C2_TransportFailureBag ==
    Returned("raises") =>
        /\ DOMAIN attributes = DOMAIN product_data \cup {"error"}
        /\ \A k \in DOMAIN product_data : attributes[k] = product_data[k]
        /\ HasError(attributes, "Request error: ")
        /\ DOMAIN attributes \cap AttributeKeys = {}

C2_Witness ==
    /\ Returned("raises")
    /\ response.exc = "Timeout"
    /\ DOMAIN product_data = BaseKeys
    /\ DOMAIN attributes = BaseKeys \cup {"error"}

\* the place of a step in the order of the steps
StepIndex(step) ==
    IF step = "markup" THEN 0
    ELSE IF step = "table" THEN Len(ExtractorSeq) + 1
    ELSE CHOOSE n \in 1..Len(ExtractorSeq) : ExtractorSeq[n] = step

\* the item processor is between its entry and its return
Scraping == pc \in {"scrape", "fetch", "markup", "table"} \cup Extractors

\* C3: a fault at any step after a successful fetch does not leave the item
\* processor: it returns a bag whose error starts with "Processing error:",
\* with the item record and every value an extractor wrote before the fault.
C3_ProcessingFaultBag ==
    /\ Scraping => ENABLED ScrapeStep
    /\ (Returned("ok") /\ response.page.fault_at # "none") =>
          /\ HasError(attributes, "Processing error: ")
          /\ \A k \in DOMAIN product_data : attributes[k] = product_data[k]
          /\ \A e \in Extractors :
                LET found == response.page.regex[e]
                IN  IF /\ StepIndex(e) < StepIndex(response.page.fault_at)
                       /\ found # {} /\ text_of(found) # <<>>
                    THEN /\ KeyOf(e) \in DOMAIN attributes
                         /\ attributes[KeyOf(e)] = text_of(found)
                    ELSE KeyOf(e) \notin DOMAIN attributes
          /\ DOMAIN attributes \subseteq
                DOMAIN product_data \cup {"error"} \cup {KeyOf(e) : e \in Extractors}

\* the table scan faults after all six extractors wrote their value
C3_Witness ==
    /\ Returned("ok")
    /\ response.page.fault_at = "table"
    /\ \A e \in Extractors : KeyOf(e) \in DOMAIN attributes
    /\ "error" \in DOMAIN attributes

\* C6: the item processor makes no request for an item whose url is empty
\* (it returns the bag with an error at once) and exactly one request
\* otherwise, whatever the outcome: a failed fetch is not retried.
C6_AtMostOneFetch ==
    /\ Cardinality(Events("fetch")) <= 1
    /\ pc = "returned" =>
          IF get(product_data, "url") = <<>>
          THEN /\ Events("fetch") = {}
               /\ "error" \in DOMAIN attributes
               /\ response = NoResponse
          ELSE Cardinality(Events("fetch")) = 1

C6_Witness ==
    /\ pc = "returned"
    /\ "url" \in DOMAIN product_data
    /\ product_data["url"] = <<>>
    /\ Events("fetch") = {}
    /\ "error" \in DOMAIN attributes

\* the link value of an item node: the namespaced link, or the bare link when
\* the namespaced one is absent (None when both are)
LinkValue(item) ==
    IF "g:link" \in DOMAIN item THEN {item["g:link"]}
    ELSE IF "link" \in DOMAIN item THEN {item["link"]}
    ELSE {}

\* the link value, trimmed, begins with http
LinkAccepted(item) ==
    \E v \in LinkValue(item) :
        LET t == strip(v)
        IN  Len(t) >= 4 /\ t[1] = "h" /\ t[2] = "t" /\ t[3] = "t" /\ t[4] = "p"

\* the item nodes with an accepted link, among the first k
AcceptedUpTo(k) == {j \in 1..k : LinkAccepted(xml_content.items[j])}

Parsed == pc = "extracted" /\ xml_content.well_formed

\* C7: for a well-formed feed the parser returns one record per item node
\* whose trimmed link value begins with http, in document order, and none
\* for the other item nodes, whatever id and title they have.
C7_OneRecordPerAcceptedLink ==
    Parsed =>
        LET n == Len(xml_content.items)
        IN  /\ Len(products) = Cardinality(AcceptedUpTo(n))
            /\ \A j \in AcceptedUpTo(n) :
                  LET r == Cardinality(AcceptedUpTo(j))
                  IN  /\ r <= Len(products)
                      /\ "url" \in DOMAIN products[r]
                      /\ products[r]["url"] =
                            strip(CHOOSE v \in LinkValue(xml_content.items[j]) : TRUE)

\* an item node with id and title and no accepted link is dropped between
\* two item nodes that are kept
C7_Witness ==
    /\ Parsed
    /\ Len(xml_content.items) = 3
    /\ AcceptedUpTo(3) = {1, 3}
    /\ {"id", "title", "link"} \subseteq DOMAIN xml_content.items[2]
    /\ xml_content.items[2]["id"] # <<>>
    /\ xml_content.items[2]["title"] # <<>>
    /\ Len(products) = 2
    /\ products[1]["url"] # products[2]["url"]

FieldTags(f) ==
    CASE f = "id" -> <<"g:id", "id">>
      [] f = "title" -> <<"g:title", "title">>
      [] f = "url" -> <<"g:link", "link">>

\* the forms of field f that are present in the item node, with text
FormsWithText(item, f) ==
    {t \in {FieldTags(f)[1], FieldTags(f)[2]} : t \in DOMAIN item /\ item[t] # <<>>}

\* C8 as stated: for every item node and each of the three fields, when
\* exactly one of the two forms is present with text, the trimmed text is the
\* value of the field in the record of the item node.
C8_AsStated ==
    Parsed =>
        \A j \in DOMAIN xml_content.items : \A f \in BaseKeys :
            LET item == xml_content.items[j]
                forms == FormsWithText(item, f)
                r == Cardinality(AcceptedUpTo(j))
            IN  Cardinality(forms) = 1 =>
                    /\ j \in AcceptedUpTo(j)
                    /\ f \in DOMAIN products[r]
                    /\ products[r][f] = strip(item[CHOOSE t \in forms : TRUE])

\* C8 (amended): for every item node that has an accepted URL and each of
\* the three fields, when exactly one of the two forms is present with text,
\* and it is the namespaced form or the namespaced element is absent, the
\* trimmed text is the value of the field in the record of the item node,
\* whichever forms the other two fields use.
C8_FallbackPerField ==
    Parsed =>
        \A j \in DOMAIN xml_content.items : \A f \in BaseKeys :
            LET item == xml_content.items[j]
                forms == FormsWithText(item, f)
                r == Cardinality(AcceptedUpTo(j))
            IN  (/\ j \in AcceptedUpTo(j)
                 /\ Cardinality(forms) = 1
                 /\ (FieldTags(f)[1] \in forms \/ FieldTags(f)[1] \notin DOMAIN item)) =>
                    /\ r <= Len(products)
                    /\ f \in DOMAIN products[r]
                    /\ products[r][f] = strip(item[CHOOSE t \in forms : TRUE])

\* one item node with a bare id, a namespaced title and a bare link
C8_Witness ==
    /\ Parsed
    /\ \E j \in DOMAIN xml_content.items :
          LET item == xml_content.items[j]
          IN  /\ DOMAIN item = {"id", "g:title", "link"}
              /\ j \in AcceptedUpTo(j)
              /\ item["id"] # <<>> /\ item["g:title"] # <<>>
              /\ products[Cardinality(AcceptedUpTo(j))]["id"] = strip(item["id"])
              /\ products[Cardinality(AcceptedUpTo(j))]["title"] = strip(item["g:title"])

\* C9: when the feed is not well formed the parser yields the empty
\* sequence, whatever item nodes came before the fault, and the run ends
\* there: no request is made and no result set is built.
C9_MalformedFeedEndsRun ==
    ~xml_content.well_formed =>
        /\ products = <<>>
        /\ pc \in {"upload", "extracted", "stopped"}
        /\ log = <<>>
        /\ all_attributes = <<>>
        /\ pc = "extracted" => ENABLED NoProducts

\* the run has ended on a document with two acceptable item nodes before
\* the fault
C9_Witness ==
    /\ ~xml_content.well_formed
    /\ pc = "stopped"
    /\ Cardinality(AcceptedUpTo(Len(xml_content.items))) >= 2

\* C10: in a successful item processing the table scan is merged after the
\* six regex extractors, the last writer winning: a key the table scan
\* produced holds the table value, a value found by a regex extractor is in
\* the bag exactly when the table scan did not produce its key, and the
\* item record's fields are as given.
C10_TableScanWinsOverRegex ==
    (Returned("ok") /\ response.page.fault_at = "none") =>
        LET table_data == extract_table_data(response.page.tables)
        IN  /\ \A k \in DOMAIN table_data :
                  k \in DOMAIN attributes /\ attributes[k] = table_data[k]
            /\ \A e \in Extractors :
                  LET found == response.page.regex[e]
                  IN  (found # {} /\ text_of(found) # <<>>) =>
                         /\ KeyOf(e) \in DOMAIN attributes
                         /\ (attributes[KeyOf(e)] = text_of(found))
                               <=> (KeyOf(e) \notin DOMAIN table_data)
            /\ \A k \in DOMAIN product_data : attributes[k] = product_data[k]
            /\ "error" \notin DOMAIN attributes

\* weight is found by the regex extractor and by the table scan, pattern by
\* the regex extractor alone
C10_Witness ==
    /\ Returned("ok")
    /\ response.page.fault_at = "none"
    /\ response.page.regex["weight"] # {}
    /\ response.page.regex["pattern"] = {Value("pattern")}
    /\ "weight" \in DOMAIN extract_table_data(response.page.tables)
    /\ attributes["weight"] = extract_table_data(response.page.tables)["weight"]
    /\ attributes["weight"] # Value("weight")
    /\ attributes["pattern"] = Value("pattern")

TableKeys == {"size", "weight", "colour", "material"}

\* the keys in their precedence, each with the keywords that select it
Precedence ==
    << [key |-> "size", words |-> {kw_dimension, kw_size}],
       [key |-> "weight", words |-> {kw_weight}],
       [key |-> "colour", words |-> {kw_colour, kw_color}],
       [key |-> "material", words |-> {kw_material}] >>

\* the key a first cell classifies to: the first in the precedence with a
\* keyword inside the cell's text (trimmed, in lower case); "none" without
CellKey(cell) ==
    LET t == lower(strip(cell))
        hits == {n \in DOMAIN Precedence : \E w \in Precedence[n].words : contains(t, w)}
    IN  IF hits = {} THEN "none"
        ELSE Precedence[CHOOSE n \in hits : \A m \in hits : n <= m].key

\* the rows of all tables, in document order
RECURSIVE Flatten(_)
Flatten(tables) ==
    IF tables = <<>> THEN <<>> ELSE Head(tables) \o Flatten(Tail(tables))

\* the places of the rows with two cells or more whose first cell classifies to k
Qualifying(rows, k) ==
    {p \in DOMAIN rows : Len(rows[p]) >= 2 /\ CellKey(rows[p][1]) = k}

Records == apply_limit(extract_products_from_xml(xml_content), max_urls)

BagKeys == BaseKeys \cup AttributeKeys \cup {"error"}

\* C12: every bag of the result set, whatever the outcome of its item, has
\* url, has id, title and url exactly as the item record it was made from
\* has them (and lacks those the record lacks), and has no key outside id,
\* title, url, size_dimensions, weight, color, material, pattern, size,
\* colour and error; the item records stay as the feed parser created them.
C12_BagKeepsItemRecord ==
    /\ \A k \in DOMAIN all_attributes :
          /\ "url" \in DOMAIN all_attributes[k]
          /\ k \in DOMAIN Records
          /\ SameBase(all_attributes[k], Records[k])
          /\ DOMAIN all_attributes[k] \subseteq BagKeys
    /\ Scraping \/ pc \in {"loop", "rate_limit", "complete", "returned"} =>
          products = Records
    /\ Scraping \/ pc = "returned" =>
          /\ product_data = Records[i + 1]
          /\ pc # "scrape" => /\ SameBase(attributes, product_data)
                              /\ DOMAIN attributes \subseteq BagKeys

\* a completed run with a bag that has an error, a bag that has every
\* attribute key, and a bag made from a record without title
C12_Witness ==
    /\ pc = "complete"
    /\ \E k \in DOMAIN all_attributes : "error" \in DOMAIN all_attributes[k]
    /\ \E k \in DOMAIN all_attributes :
          /\ AttributeKeys \subseteq DOMAIN all_attributes[k]
          /\ all_attributes[k]["colour"] # all_attributes[k]["color"]
    /\ \E k \in DOMAIN all_attributes :
          /\ "title" \notin DOMAIN all_attributes[k]
          /\ "title" \notin DOMAIN products[k]

\* the sequence without its j-th element
RemoveAt(q, j) == SubSeq(q, 1, j - 1) \o SubSeq(q, j + 1, Len(q))

\* the item node has a namespaced link element whose text, trimmed, is empty
\* or does not begin with http
UnusableNamespacedLink(item) ==
    /\ "g:link" \in DOMAIN item
    /\ LET t == strip(item["g:link"])
       IN  ~(Len(t) >= 4 /\ SubSeq(t, 1, 4) = <<"h", "t", "t", "p">>)

\* C13: the bare tag is consulted only when the namespaced element is
\* absent. An item node with a namespaced link element whose text (trimmed,
\* as every extracted value is) is empty or does not begin with http is
\* dropped, whatever its bare link holds: the records are those of the feed
\* without that item node. In the record of an item node that is kept, id
\* (title) is unset when the namespaced id (title) element is present and
\* empty, whatever the bare id (title) holds.
C13_FallbackOnlyWhenAbsent ==
    Parsed =>
        LET items == xml_content.items
            unusable == {j \in DOMAIN items : UnusableNamespacedLink(items[j])}
        IN  /\ Len(products) <= Len(items) - Cardinality(unusable)
            /\ \A j \in unusable :
                  products = extract_products_from_xml(
                                 [xml_content EXCEPT !.items = RemoveAt(items, j)])
            /\ \A j \in DOMAIN items : \A f \in {"id", "title"} :
                  (/\ j \in AcceptedUpTo(j)
                   /\ FieldTags(f)[1] \in DOMAIN items[j]
                   /\ items[j][FieldTags(f)[1]] = <<>>) =>
                      f \notin DOMAIN products[Cardinality(AcceptedUpTo(j))]

\* an item node whose namespaced link holds ftp:1 and whose bare link is an
\* http URL is dropped between two item nodes that are kept
C13_Witness ==
    /\ Parsed
    /\ Len(xml_content.items) = 3
    /\ UnusableNamespacedLink(xml_content.items[2])
    /\ xml_content.items[2]["g:link"] = Ftp
    /\ "link" \in DOMAIN xml_content.items[2]
    /\ xml_content.items[2]["link"] = Url2
    /\ Len(products) = 2

====
